---- MODULE Spec2Model ----
(***************************************************************************)
(* The anomaly-detection service (src/detection_service.py) and the        *)
(* artifact written by the trainer (src/anomaly_model.py).                 *)
(*                                                                         *)
(* The server process loads the artifact once, at import time, into the    *)
(* module-level variable `model`, and then answers POST /predict and       *)
(* GET /health.  A request is validated by the PredictionRequest schema    *)
(* before predict_anomaly runs; the handlers only read `model`.            *)
(*                                                                         *)
(* Library calls the code makes are modelled by their documented           *)
(* behaviour at the call site: joblib.load returns the pickled object or   *)
(* raises; IsolationForest.predict returns 1 or -1 for a finite sample and *)
(* raises ValueError for a sample that is NaN, infinite or too large for   *)
(* float32; any other unpickled object answers predict as that object      *)
(* pleases.                                                                *)
(***************************************************************************)
EXTENDS Integers, Sequences, FiniteSets, Bags

VARIABLES
    artifact,     \* what the file at MODEL_PATH holds
    pc,           \* the server process: "start", "serving" or "aborted"
    model,        \* the module-level model reference
    startup_log,  \* what the load at startup printed
    inflight,     \* bag of validated requests whose handler has not run yet
    responses     \* per endpoint, the response sent last

vars == <<artifact, pc, model, startup_log, inflight, responses>>

----------------------------------------------------------------------------
(* Bounds of the model *)

\* Requests the server has open at the same time: a request arrives only
\* while fewer are waiting for their handlers.
MaxRequests == 2

----------------------------------------------------------------------------
(* Values *)

\* PredictionRequest: data has min_length=2 and max_length=2.
min_length == 2
max_length == 2

\* The data lists clients send run from the empty list to one feature more
\* than the schema allows.
MaxLen == max_length + 1

\* JSON numbers a client can put in data.  All of them are floats to the
\* schema; "1e39" is a finite float64 that is too large for float32.
FiniteFeatures == {"2.1", "-5.0"}
Features == FiniteFeatures \cup {"1e39"}

\* Every data list of at most MaxLen features.
DataLists == UNION {[1..n -> Features] : n \in 0..MaxLen}

\* The samples a fitted forest classifies: one row of two finite features.
FiniteSamples == [1..2 -> FiniteFeatures]

\* model = None
None == [cls |-> "NoneType"]

\* A fitted IsolationForest, as far as predict shows it: the samples it
\* isolates as outliers.
Forests == [cls : {"IsolationForest"}, outliers : SUBSET FiniteSamples]

\* What a call may do: return a value or raise.
Return(t, v) == [kind |-> "return", type |-> t, value |-> v, exc |-> ""]
Raise(e) == [kind |-> "raise", type |-> "", value |-> 0, exc |-> e]

\* Objects other than a forest that a pickle file can hold, by what their
\* predict(...)[0] does: an integer that is neither label, a value int()
\* refuses, or an exception (the object has no predict at all).
OtherBehaviours ==
    { Return("int", 0), Return("int", 2), Return("str", 0),
      Raise("AttributeError: object has no attribute 'predict'") }
Others == [cls : {"Other"}, predict : OtherBehaviours]

Objects == {None} \cup Forests \cup Others

\* The file at MODEL_PATH: missing, not a pickle (cut short, or other bytes),
\* or the pickle of an object.
Artifacts ==
    {[file |-> "absent"], [file |-> "truncated"], [file |-> "garbage"]}
        \cup [file : {"pickle"}, obj : Objects]

----------------------------------------------------------------------------
(* Calls into the libraries *)

\* joblib.load(MODEL_PATH)
joblib_load(file) ==
    CASE file.file = "absent" -> Raise("FileNotFoundError")
      [] file.file = "truncated" -> Raise("EOFError")
      [] file.file = "garbage" -> Raise("UnpicklingError")
      [] OTHER -> Return("object", file.obj)

\* A load that catches the unpickling error by name instead of Exception.
IsException_narrow(e) ==
    e \in {"FileNotFoundError", "UnpicklingError"}

\* The exception classes above all derive from Exception, which is what the
\* second except clause of the load catches.
IsException(e) ==
    e \in {"FileNotFoundError", "EOFError", "UnpicklingError"}

\* check_array in IsolationForest.predict: every feature finite in float32.
AllFinite(data) == \A i \in DOMAIN data : data[i] \in FiniteFeatures

\* m.predict(np.array(data).reshape(1, -1))[0] for a loaded object m.
ModelPredict(m, data) ==
    IF m.cls = "NoneType"
    THEN Raise("AttributeError: 'NoneType' object has no attribute 'predict'")
    ELSE IF m.cls = "IsolationForest"
    THEN IF Len(data) # 2
         THEN Raise("ValueError: X has a different number of features")
         ELSE IF ~AllFinite(data)
         THEN Raise("ValueError: Input X contains NaN or infinity")
         ELSE Return("int", IF data \in m.outliers THEN -1 ELSE 1)
    ELSE m.predict

\* int(prediction)
IntOf(prediction) ==
    IF prediction.type = "int"
    THEN Return("int", prediction.value)
    ELSE Raise("ValueError: invalid literal for int()")

----------------------------------------------------------------------------
(* Requests and responses *)

\* A schema that forgets max_length.
ValidRequest_no_max(data) == Len(data) >= min_length

\* The PredictionRequest schema: a list of exactly two floats.
ValidRequest(data) == Len(data) >= min_length /\ Len(data) <= max_length

DETAIL_503_PREDICT == "Model artifact not loaded. Service unavailable."
DETAIL_500 == "Internal processing error during prediction."
DETAIL_503_HEALTH == "Service is running, but the ML model failed to load."
MESSAGE_PREDICT == "Prediction successful. Score of -1 indicates an anomaly."

\* A response, with what the handler did on the way: whether it called the
\* model's predict, and the exception text it printed ("" when none).
Response(endpoint, data, status, body, invoked, printed) ==
    [endpoint |-> endpoint, data |-> data, status |-> status, body |-> body,
     invoked |-> invoked, printed |-> printed]

NoResponse == [status |-> 0]

\* FastAPI's answer to a body the schema refuses.
Unprocessable(data) ==
    Response("predict", data, 422, [detail |-> "validation error"], FALSE, "")

\* raise HTTPException(status_code=..., detail=...)
HTTPException(endpoint, data, status, detail, invoked, printed) ==
    Response(endpoint, data, status, [detail |-> detail], invoked, printed)

\* An except clause that hands the exception's text to the caller.
InternalError_leaky(data, e) ==
    HTTPException("predict", data, 500, e, TRUE, e)

\* The except clause of predict_anomaly: print the exception, answer 500.
InternalError(data, e) ==
    HTTPException("predict", data, 500, DETAIL_500, TRUE, e)

\* The labels the wrong way round.
StatusLabel_swapped(prediction) ==
    IF prediction.type = "int" /\ prediction.value = -1
    THEN "Normal Traffic"
    ELSE "Anomaly Detected"

\* The label of a prediction.
StatusLabel(prediction) ==
    IF prediction.type = "int" /\ prediction.value = -1
    THEN "Anomaly Detected"
    ELSE "Normal Traffic"

\* predict_anomaly without its check of the model reference.
predict_anomaly_unchecked(m, data) ==
    LET prediction == ModelPredict(m, data) IN
    IF prediction.kind = "raise"
    THEN InternalError(data, prediction.exc)
    ELSE LET status == StatusLabel(prediction)
             score == IntOf(prediction)
         IN IF score.kind = "raise"
            THEN InternalError(data, score.exc)
            ELSE Response("predict", data, 200,
                          [status |-> status,
                           prediction_score |-> score.value,
                           input_data |-> data,
                           message |-> MESSAGE_PREDICT],
                          TRUE, "")

\* predict_anomaly(request) with the module's model reference m.
predict_anomaly(m, data) ==
    IF m = None
    THEN HTTPException("predict", data, 503, DETAIL_503_PREDICT, FALSE, "")
    ELSE LET prediction == ModelPredict(m, data) IN
         IF prediction.kind = "raise"
         THEN InternalError(data, prediction.exc)
         ELSE LET status == StatusLabel(prediction)
                  score == IntOf(prediction)
              IN IF score.kind = "raise"
                 THEN InternalError(data, score.exc)
                 ELSE Response("predict", data, 200,
                               [status |-> status,
                                prediction_score |-> score.value,
                                input_data |-> data,
                                message |-> MESSAGE_PREDICT],
                               TRUE, "")

\* health_check without its 503.
health_check_always_ok(m) ==
    Response("health", <<>>, 200,
             [status |-> "OK",
              service |-> "Containerized Anomaly Detection API",
              model_loaded |-> (m # None),
              message |-> "Service is running and ML model is operational."],
             FALSE, "")

\* health_check() with the module's model reference m.
health_check(m) ==
    LET model_loaded_status == (m # None) IN
    IF ~model_loaded_status
    THEN HTTPException("health", <<>>, 503, DETAIL_503_HEALTH, FALSE, "")
    ELSE Response("health", <<>>, 200,
                  [status |-> "OK",
                   service |-> "Containerized Anomaly Detection API",
                   model_loaded |-> model_loaded_status,
                   message |-> "Service is running and ML model is operational."],
                  FALSE, "")

----------------------------------------------------------------------------
(* The server process *)

Init ==
    /\ artifact \in Artifacts
    /\ pc = "start"
    /\ model = None
    /\ startup_log = "none"
    /\ inflight = EmptyBag
    /\ responses = [e \in {"predict", "health"} |-> NoResponse]

\* A load that falls back to a fresh, unfitted estimator when the file cannot
\* be unpickled.
LoadModel_fallback(file) ==
    LET r == joblib_load(file) IN
    IF r.kind = "return"
    THEN [model |-> r.value, printed |-> "loaded", pc |-> "serving"]
    ELSE IF r.exc = "FileNotFoundError"
    THEN [model |-> None, printed |-> "not found", pc |-> "serving"]
    ELSE [model |-> [cls |-> "Other", predict |-> Raise("NotFittedError")],
          printed |-> "failed to load", pc |-> "serving"]

\* What the module-level try/except around joblib.load leaves behind:
\* the model reference, the line printed, and whether the import went on.
LoadModel(file) ==
    LET r == joblib_load(file) IN
    IF r.kind = "return"
    THEN [model |-> r.value, printed |-> "loaded", pc |-> "serving"]
    ELSE IF r.exc = "FileNotFoundError"
    THEN [model |-> None, printed |-> "not found", pc |-> "serving"]
    ELSE IF IsException(r.exc)
    THEN [model |-> None, printed |-> "failed to load", pc |-> "serving"]
    ELSE [model |-> None, printed |-> "none", pc |-> "aborted"]

\* anomaly_model.py, run offline before the image with the server is built:
\* fit an IsolationForest and dump it to MODEL_PATH, over whatever is there.
\* (The script then reloads the file and prints two predictions.)
Train ==
    /\ pc = "start"
    /\ \E fitted \in Forests :
         artifact' = [file |-> "pickle", obj |-> fitted]
    /\ UNCHANGED <<pc, model, startup_log, inflight, responses>>

\* Import of detection_service: load the model, then build the app.
Startup ==
    /\ pc = "start"
    /\ LET s == LoadModel(artifact) IN
        /\ model' = s.model
        /\ startup_log' = s.printed
        /\ pc' = s.pc
    /\ UNCHANGED <<artifact, inflight, responses>>

\* A POST /predict arrives: the schema validates the body; a refused body is
\* answered at once, an accepted one waits for its handler.
ReceivePredict ==
    /\ pc = "serving"
    /\ BagCardinality(inflight) < MaxRequests
    /\ \E data \in DataLists :
         IF ValidRequest(data)
         THEN /\ inflight' = inflight (+) SetToBag({[endpoint |-> "predict", data |-> data]})
              /\ UNCHANGED responses
         ELSE /\ responses' = [responses EXCEPT !["predict"] = Unprocessable(data)]
              /\ UNCHANGED inflight
    /\ UNCHANGED <<artifact, pc, model, startup_log>>

\* A GET /health arrives.
ReceiveHealth ==
    /\ pc = "serving"
    /\ BagCardinality(inflight) < MaxRequests
    /\ inflight' = inflight (+) SetToBag({[endpoint |-> "health", data |-> <<>>]})
    /\ UNCHANGED <<artifact, pc, model, startup_log, responses>>

\* A handler that drops the model reference after a failed prediction.
RunPredict_drops_model ==
    /\ pc = "serving"
    /\ \E r \in BagToSet(inflight) :
         /\ r.endpoint = "predict"
         /\ inflight' = inflight (-) SetToBag({r})
         /\ responses' = [responses EXCEPT !["predict"] = predict_anomaly(model, r.data)]
         /\ model' = IF predict_anomaly(model, r.data).status = 500 THEN None ELSE model
    /\ UNCHANGED <<artifact, pc, startup_log>>

\* The event loop runs predict_anomaly for a waiting request.
RunPredict ==
    /\ pc = "serving"
    /\ \E r \in BagToSet(inflight) :
         /\ r.endpoint = "predict"
         /\ inflight' = inflight (-) SetToBag({r})
         /\ responses' = [responses EXCEPT !["predict"] = predict_anomaly(model, r.data)]
    /\ UNCHANGED <<artifact, pc, model, startup_log>>

\* A worker thread runs health_check for a waiting request.
RunHealth ==
    /\ pc = "serving"
    /\ \E r \in BagToSet(inflight) :
         /\ r.endpoint = "health"
         /\ inflight' = inflight (-) SetToBag({r})
         /\ responses' = [responses EXCEPT !["health"] = health_check(model)]
    /\ UNCHANGED <<artifact, pc, model, startup_log>>

Next ==
    \/ Train
    \/ Startup
    \/ ReceivePredict
    \/ ReceiveHealth
    \/ RunPredict
    \/ RunHealth

Spec == Init /\ [][Next]_vars

----------------------------------------------------------------------------
(* Properties *)

\* The responses sent last, and whether there is one.
LastPredict == responses["predict"]
LastHealth == responses["health"]
Sent(r) == r.status # 0

\* A predict response to a body the schema accepted.
Handled(r) == Sent(r) /\ ValidRequest(r.data)

\* A 200 of predict carries a label that matches its score.
LabelMatches(r) ==
    /\ r.body.prediction_score \in {1, -1}
    /\ r.body.prediction_score = -1 => r.body.status = "Anomaly Detected"
    /\ r.body.prediction_score = 1 => r.body.status = "Normal Traffic"

\* The artifact could not be loaded at startup: the file is missing or is
\* not a pickle.
LoadFailed == pc = "serving" /\ artifact.file # "pickle"

\* C1, as the spec states it: with a model loaded, every valid two-element
\* input is answered with a prediction_score of exactly 1 or -1 and the
\* label that matches it.
C1_EveryValidInputScored ==
    (model # None /\ Handled(LastPredict)) =>
        (LastPredict.status = 200 /\ LabelMatches(LastPredict))

\* C1, amended: with a model loaded, a valid two-element input on which the
\* model's predict returns 1 or -1 is answered 200 with that score and the
\* label that matches it, and the fitted IsolationForest returns 1 or -1 on
\* every input whose features are finite; a valid input on which predict
\* raises (a feature too large for float32) is answered 500.
C1_ScoredWhenModelAnswers ==
    (model # None /\ Handled(LastPredict)) =>
        LET out == ModelPredict(model, LastPredict.data) IN
        /\ (out.kind = "return" /\ out.type = "int" /\ out.value \in {1, -1}) =>
               /\ LastPredict.status = 200
               /\ LastPredict.body.prediction_score = out.value
               /\ LabelMatches(LastPredict)
               /\ LastPredict.body.input_data = LastPredict.data
        /\ (model.cls = "IsolationForest" /\ AllFinite(LastPredict.data)) =>
               (LastPredict.status = 200 /\ LabelMatches(LastPredict))
        /\ out.kind = "raise" => LastPredict.status = 500

\* C1's case: the fitted forest has answered a valid input as an anomaly.
C1_Witness ==
    /\ Handled(LastPredict)
    /\ model.cls = "IsolationForest"
    /\ LastPredict.status = 200
    /\ LastPredict.body.prediction_score = -1
    /\ LastPredict.body.status = "Anomaly Detected"

\* C2: a predict request whose data list is not of length 2 is answered with
\* a client-error status and the model's predict is not called for it,
\* model loaded or not: no such request ever waits for the handler.
C2_WrongLengthRejected ==
    /\ (Sent(LastPredict) /\ Len(LastPredict.data) # 2) =>
           /\ LastPredict.status \in 400..499
           /\ ~LastPredict.invoked
    /\ \A r \in BagToSet(inflight) :
           r.endpoint = "predict" => Len(r.data) = 2

\* C2's case: a three-element list was refused by a server that has a model.
C2_Witness ==
    /\ model # None
    /\ Sent(LastPredict)
    /\ Len(LastPredict.data) = 3
    /\ LastPredict.status = 422

\* C3: when the artifact file is absent at startup, health answers 503 and
\* predict answers every valid input 503 without calling the model.
C3_AbsentArtifact503 ==
    (pc = "serving" /\ artifact.file = "absent") =>
        /\ Sent(LastHealth) => LastHealth.status = 503
        /\ Handled(LastPredict) =>
               (LastPredict.status = 503 /\ ~LastPredict.invoked)

\* C3's case: a server started without the file has answered both endpoints.
C3_Witness ==
    /\ pc = "serving"
    /\ artifact.file = "absent"
    /\ Sent(LastHealth)
    /\ Handled(LastPredict)

\* C4: health answers 200 with model_loaded true exactly when predict does
\* not short-circuit a valid input with 503, both for the calls the current
\* state would answer and for the responses already sent.
C4_HealthAgreesWithPredict ==
    /\ pc = "serving" =>
           ((/\ health_check(model).status = 200
             /\ health_check(model).body.model_loaded)
            <=> \A data \in [1..2 -> Features] :
                    predict_anomaly(model, data).status # 503)
    /\ (Sent(LastHealth) /\ Handled(LastPredict)) =>
           (LastHealth.status = 200 <=> LastPredict.status # 503)
    /\ (Sent(LastHealth) /\ LastHealth.status = 200) =>
           LastHealth.body.model_loaded

\* C4's case: health has answered 200 and predict has answered a valid input.
C4_Witness ==
    /\ Sent(LastHealth)
    /\ LastHealth.status = 200
    /\ Handled(LastPredict)
    /\ LastPredict.status = 200

\* C5: when the model's output for a valid request is neither -1 nor 1, the
\* response is a 500 and not a success with a label.
C5_OtherOutputIs500 ==
    (model # None /\ Handled(LastPredict)) =>
        LET out == ModelPredict(model, LastPredict.data) IN
        (out.kind = "return" /\ ~(out.type = "int" /\ out.value \in {1, -1}))
            => LastPredict.status = 500

\* C6: whenever reshaping, the model call or the mapping of the result
\* raises, the caller gets 500 with the fixed detail string, whatever the
\* exception was.
C6_ExceptionIsGeneric500 ==
    (model # None /\ Handled(LastPredict)) =>
        LET out == ModelPredict(model, LastPredict.data) IN
        /\ (out.kind = "raise" \/ IntOf(out).kind = "raise") =>
               /\ LastPredict.status = 500
               /\ LastPredict.body = [detail |-> DETAIL_500]
        /\ LastPredict.printed # "" =>
               /\ LastPredict.status = 500
               /\ LastPredict.body = [detail |-> DETAIL_500]

\* C6's case: the fitted forest raised on a valid input and the handler
\* printed the exception.
C6_Witness ==
    /\ Handled(LastPredict)
    /\ model.cls = "IsolationForest"
    /\ LastPredict.printed = "ValueError: Input X contains NaN or infinity"
    /\ LastPredict.status = 500

\* C7, as the spec states it: after a startup that could not load the
\* artifact, every predict request, whatever its body, and every health
\* check is answered 503.
C7_EveryRequest503 ==
    LoadFailed =>
        /\ Sent(LastPredict) => LastPredict.status = 503
        /\ Sent(LastHealth) => LastHealth.status = 503

\* C7, amended: after a startup that could not load the artifact, every
\* health check and every predict request whose body the schema accepts is
\* answered 503; a predict request whose body the schema refuses is
\* answered 422.
C7_ValidRequest503 ==
    LoadFailed =>
        /\ Sent(LastPredict) =>
               LastPredict.status = IF ValidRequest(LastPredict.data)
                                    THEN 503 ELSE 422
        /\ Sent(LastHealth) => LastHealth.status = 503

\* C7's case: a server whose artifact was not a pickle has answered a valid
\* predict request and a health check.
C7_Witness ==
    /\ LoadFailed
    /\ artifact.file = "garbage"
    /\ Handled(LastPredict)
    /\ Sent(LastHealth)

\* C8: startup never aborts because of the artifact; on a missing file or a
\* file that cannot be unpickled the failure is printed, the model
\* reference stays None and the server serves.
C8_StartupSurvivesBadArtifact ==
    /\ pc \in {"start", "serving"}
    /\ LoadFailed =>
           /\ model = None
           /\ startup_log \in {"not found", "failed to load"}
    /\ (pc = "serving" /\ artifact.file = "pickle") => startup_log = "loaded"

\* C8's case: the server serves after a startup on a file that was cut short.
C8_Witness ==
    /\ pc = "serving"
    /\ artifact.file = "truncated"
    /\ startup_log = "failed to load"
    /\ Sent(LastHealth)

\* C10: once the server serves, no step changes the model reference, and
\* every response is what the handler makes of the reference set at startup
\* and of the request's own input.
C10_ModelSetOnce ==
    /\ [][pc = "serving" => model' = model]_vars
    /\ [](pc = "serving" =>
            /\ model = LoadModel(artifact).model
            /\ Handled(LastPredict) =>
                   LastPredict = predict_anomaly(model, LastPredict.data)
            /\ Sent(LastHealth) => LastHealth = health_check(model))

\* C10's case: both endpoints have answered and a predict and a health
\* request are in flight together.
C10_Witness ==
    /\ Sent(LastHealth)
    /\ Handled(LastPredict)
    /\ BagCardinality(inflight) = 2
    /\ \E r \in BagToSet(inflight) : r.endpoint = "predict"
    /\ \E r \in BagToSet(inflight) : r.endpoint = "health"

====
